---- MODULE Spec2Model ----
(***************************************************************************)
(* FactFusion: the cache-then-refresh data flow of the three pages         *)
(* (dashboard Home, NewsAnalytics, AdminPayout) over the IndexedDB store   *)
(* and the remote fetcher of lib/fetchNews.ts.                             *)
(*                                                                         *)
(* One behaviour of Spec is one mount of one page in a browser.  Every     *)
(* effect of the page is an async task; a task runs atomically from one    *)
(* await to the next (a store load or put, or the provider's answer), and  *)
(* tasks interleave freely at those points.  setState calls made in one    *)
(* continuation are applied together (automatic batching).                 *)
(*                                                                         *)
(* A behaviour of Spec can also be one direct call of fetchNews or of       *)
(* fetchNewsAndBlogs, in the browser or on the server (getServerSideProps). *)
(***************************************************************************)
EXTENDS Integers, Sequences, FiniteSets, TLC

\* ------------------------------------------------------------------ bounds
\* length of one provider response's article list
MaxLen == 1
\* the clock is capped here (it starts at Now0 = 3)
MaxNow == 4

\* ------------------------------------------------------------- constants
\* the freshness window 60 * 60 * 1000 ms, in half-hour ticks
Hour == 2

\* Date.now() when the page mounts or the fetcher is called
Now0 == Hour + 1

\* the absent indicator (undefined / null)
Null == [absent |-> TRUE]
\* item.author is null
NullAuthor == "<null>"

CacheKeyNews == "newsapi_news"
CacheKeyNewsBlogs == "newsapi_news_blogs"
CacheKeyPayout == "admin-payout-articles"
CacheKeys == {CacheKeyNews, CacheKeyNewsBlogs, CacheKeyPayout}

Pages == {"dashboard", "analytics", "payout"}

\* the key each page hydrates from and persists to
PageKey(p) ==
  IF p = "payout" THEN CacheKeyPayout ELSE CacheKeyNewsBlogs

\* ------------------------------------------------------ provider's answers
\* the i-th raw item of a provider answer: the fields mapArticle copies
\* verbatim
RawItem(i) ==
  [title |-> i, author |-> IF i % 2 = 1 THEN "Jane" ELSE NullAuthor]

\* the provider's lists: the first n headlines, n <= MaxLen
RawLists ==
  {[i \in 1..n |-> RawItem(i)] : n \in 0..MaxLen}

\* fetch() rejects, or the body is not JSON
Threw == [kind |-> "threw"]

\* an HTTP answer: res.ok, and whether the JSON body has an articles field
\* (the provider's error body has none)
HttpResponses ==
  {[kind |-> "http", ok |-> TRUE, hasArticles |-> TRUE, articles |-> l] :
      l \in RawLists}
  \cup {[kind |-> "http", ok |-> b, hasArticles |-> FALSE, articles |-> <<>>] :
      b \in BOOLEAN}

Responses == {Threw} \cup HttpResponses

\* data.articles || []
DataArticles(data) ==
  IF data.hasArticles THEN data.articles ELSE <<>>

\* ------------------------------------------------------------ the fetcher
\* fetchNews.mapArticle
mapArticleNews(item) ==
  [title |-> item.title, author |-> item.author, type |-> "news"]

\* a mapper that drops its type argument
mapArticleUntyped(item, type) ==
  [title |-> item.title, author |-> item.author, type |-> ""]

\* fetchNewsAndBlogs.mapArticle
mapArticle(item, type) ==
  [title |-> item.title, author |-> item.author, type |-> type]

MapList(l, type) ==
  [i \in 1..Len(l) |-> mapArticle(l[i], type)]

\* fetchNews: the 1 hour cache test on the entry read from the store
NewsCacheFresh(cache, t) ==
  /\ cache # Null
  /\ t - cache.timestamp < Hour

\* a cache test that takes an entry of any age
NewsBlogsCacheAnyAge(cache, t) ==
  cache # Null

\* fetchNewsAndBlogs: the 1 hour cache test on the entry read from the store
NewsBlogsCacheFresh(cache, t) ==
  /\ cache # Null
  /\ t - cache.timestamp < Hour

\* fetchNews: does the call throw on this answer
NewsThrows(res) ==
  \/ res = Threw
  \/ ~res.ok

\* fetchNews: the articles it returns for an answer it does not throw on
NewsArticles(res) ==
  [i \in 1..Len(DataArticles(res)) |-> mapArticleNews(DataArticles(res)[i])]

\* fetchNewsAndBlogs: does the call throw on these two answers (res.ok is
\* never read; only a rejected fetch or an unparsable body throws)
NewsBlogsThrows(newsRes, blogsRes) ==
  \/ newsRes = Threw
  \/ blogsRes = Threw

\* fetchNewsAndBlogs: the batch it returns for two answers it does not throw on
NewsBlogsBatch(newsRes, blogsRes) ==
  [news |-> MapList(DataArticles(newsRes), "news"),
   blogs |-> MapList(DataArticles(blogsRes), "blogs")]

\* the batches a server-side or an earlier client-side fetch can have produced
Batches ==
  {NewsBlogsBatch(r1, r2) : r1 \in HttpResponses, r2 \in HttpResponses}

\* { news, blogs, timestamp }
NewsBlogsEntry(batch, t) ==
  [news |-> batch.news, blogs |-> batch.blogs, timestamp |-> t]

\* { articles, timestamp }
ArticlesEntry(list, t) ==
  [articles |-> list, timestamp |-> t]

BatchOf(entry) ==
  [news |-> entry.news, blogs |-> entry.blogs]

\* ------------------------------------------------------- page predicates
\* cached && cached.news && cached.blogs (an empty array is truthy)
HasNewsBlogs(cached) ==
  /\ cached # Null
  /\ "news" \in DOMAIN cached
  /\ "blogs" \in DOMAIN cached

\* cached && Array.isArray(cached.articles) && cached.articles.length > 0
HasArticles(cached) ==
  /\ cached # Null
  /\ "articles" \in DOMAIN cached
  /\ Len(cached.articles) > 0

\* a refresh check that also refuses an entry without articles
NoCachedBatchOrEmpty(cached) ==
  \/ ~HasNewsBlogs(cached)
  \/ Len(cached.news) + Len(cached.blogs) = 0

\* !cached || !cached.news || !cached.blogs
NoCachedBatch(cached) ==
  ~HasNewsBlogs(cached)

\* the page's test for "a cached batch exists"
ValidCached(p, cached) ==
  IF p = "payout" THEN HasArticles(cached) ELSE HasNewsBlogs(cached)

\* an emptiness test written with || in place of &&
BothEmptyEither(n, b) ==
  Len(n) = 0 \/ Len(b) = 0

\* news.length === 0 && blogs.length === 0
BothEmpty(n, b) ==
  Len(n) = 0 /\ Len(b) = 0

\* ------------------------------------------------------------------ state
VARIABLES
  page,             \* the mounted page
  online,           \* navigator.onLine, read by the effects at mount
  ssr,              \* the props of getServerSideProps: { news, blogs }
  store,            \* the "articles" object store of newsDashboardDB
  now,              \* Date.now()
  news,             \* useState news (Home, NewsAnalytics)
  blogs,            \* useState blogs (Home, NewsAnalytics)
  offlineArticles,  \* useState offlineArticles (Home)
  articles,         \* useState articles (AdminPayout)
  apiError,         \* useState apiError (Home)
  propsRef,         \* news/blogs still hold the arrays of the props
  hyd,              \* the hydration effect's task
  rf,               \* the refresh effect's task, the fetcher call included
  off,              \* the offline effect's task
  fbPending,        \* started runs of the empty-result fallback effect
  netCalls,         \* history: requests sent to the provider
  fnbCalls,         \* history: calls of fetchNewsAndBlogs
  answers,          \* history: the provider's answers to this call
  fetched,          \* history: the batch the fetcher returned
  store0,           \* history: the store at mount
  fbLoaded,         \* history: what the last fallback run loaded
  window,           \* typeof window !== "undefined"
  call,             \* a direct call of fetchNews or fetchNewsAndBlogs
  filters,          \* the Redux state of filtersSlice
  selectedAuthor,   \* useState selectedAuthor (AdminPayout)
  selectedType,     \* useState selectedType (AdminPayout)
  payoutRates,      \* useState payoutRates (AdminPayout)
  lastOp,           \* history: the last user action and the state it found
  sheet             \* handleGoogleSheetExport: useState exporting, its rows,
                    \* and history: the POSTs sent, their answers, the alert

vars ==
  <<page, online, ssr, store, now, news, blogs, offlineArticles, articles,
    apiError, propsRef, hyd, rf, off, fbPending, netCalls, fnbCalls, answers,
    fetched, store0, fbLoaded, window, call, filters, selectedAuthor,
    selectedType, payoutRates, lastOp, sheet>>

pageState == <<news, blogs, offlineArticles, articles, apiError, propsRef>>
history == <<netCalls, fnbCalls, answers, fetched, fbLoaded>>
fixed == <<page, online, ssr, window, call, store0>>
viewVars ==
  <<filters, selectedAuthor, selectedType, payoutRates, lastOp, sheet>>
restOfView == <<selectedAuthor, selectedType, payoutRates, lastOp, sheet>>

Task(pc, entry) ==
  [pc |-> pc, entry |-> entry]

None == [none |-> TRUE]

\* a store written with add(value, key), which keeps an existing value
PutIfAbsent(st, key, value) ==
  IF st[key] = Null THEN [st EXCEPT ![key] = value] ELSE st

\* saveToIndexedDB: put(value, key) replaces the value at key
Put(st, key, value) ==
  [st EXCEPT ![key] = value]

\* the props of AdminPayout: [...news, ...blogs]
SsrArticles ==
  ssr.news \o ssr.blogs

\* what the page renders from: Home.articlesToUse before the type selector
Displayed ==
  CASE page = "dashboard" ->
         IF offlineArticles # Null THEN offlineArticles
         ELSE [news |-> news, blogs |-> blogs]
    [] page = "analytics" -> [news |-> news, blogs |-> blogs]
    [] OTHER -> [articles |-> articles]

\* the batch held by a store entry, in the shape of Displayed
EntryBatch(p, entry) ==
  IF p = "payout" THEN [articles |-> entry.articles] ELSE BatchOf(entry)

\* the props, in the shape of Displayed
SsrBatch ==
  IF page = "payout" THEN [articles |-> SsrArticles] ELSE ssr

\* a fetched batch, in the shape of Displayed
FreshBatch(p, batch) ==
  IF p = "payout" THEN [articles |-> batch.news \o batch.blogs] ELSE batch

\* ------------------------------------------------------------ filter state
\* the value "" of a cleared date input; a chosen day is a number >= 1
NoDate == 0

\* filtersSlice.initialState (a string is the sequence of its characters)
initialState ==
  [type |-> "news", searchTerm |-> <<>>, selectedAuthor |-> "All",
   startDate |-> NoDate, endDate |-> NoDate]

\* a reducer that keeps the sub-filters when the type changes
setTypeOnly(state, payload) ==
  [state EXCEPT !.type = payload]

\* filtersSlice.reducers.setType
setType(state, payload) ==
  [state EXCEPT !.type = payload,
                !.selectedAuthor = "All",
                !.searchTerm = <<>>,
                !.startDate = NoDate,
                !.endDate = NoDate]

setSearchTerm(state, payload) ==
  [state EXCEPT !.searchTerm = payload]

setSelectedAuthor(state, payload) ==
  [state EXCEPT !.selectedAuthor = payload]

setStartDate(state, payload) ==
  [state EXCEPT !.startDate = payload]

\* a reducer that writes the end date into the start date
setEndDateAsStart(state, payload) ==
  [state EXCEPT !.startDate = payload]

setEndDate(state, payload) ==
  [state EXCEPT !.endDate = payload]

\* filtersSlice.reducers.resetFilters
resetFilters(state) ==
  [state EXCEPT !.selectedAuthor = "All",
                !.searchTerm = <<>>,
                !.startDate = NoDate,
                !.endDate = NoDate]

\* the store and the payout page's local state as created: no user action yet
\* the "Reset filters when type changes" effect: dispatch(resetFilters());
\* dispatch(setType(filters.type)); it runs when filters.type or the
\* articles memo (news, blogs) changed
ResetEffect(state) ==
  setType(resetFilters(state), state.type)

\* an export of the payout rows: the exporting flag, the rows prepared, the
\* rows POSTed so far, the answers received and the alert raised
Export(exporting, rows, posts, responses, alert) ==
  [exporting |-> exporting, rows |-> rows, posts |-> posts,
   responses |-> responses, alert |-> alert]

ViewStart ==
  /\ filters = initialState
  /\ selectedAuthor = "All"
  /\ selectedType = "All"
  /\ payoutRates = <<>>
  /\ lastOp = None
  /\ sheet = Export(FALSE, <<>>, <<>>, <<>>, <<>>)

\* ------------------------------------------------------------------- mount
\* the state when the effects of the first render have run: useState holds
\* the props, every effect has started its task
MountInit ==
  /\ page \in Pages
  /\ online \in BOOLEAN
  /\ window = TRUE
  /\ call = None
  /\ now = Now0
  /\ ssr \in Batches
  /\ \E nb \in {Null} \cup
               {NewsBlogsEntry(b, t) : b \in Batches, t \in {0, now - 1}},
        po \in {Null} \cup
               {ArticlesEntry(b.news \o b.blogs, 0) : b \in Batches} :
        /\ page # "payout" => po = Null
        /\ store = [k \in CacheKeys |->
                      CASE k = CacheKeyNewsBlogs -> nb
                        [] k = CacheKeyPayout -> po
                        [] OTHER -> Null]
  /\ store0 = store
  /\ news = IF page = "payout" THEN <<>> ELSE ssr.news
  /\ blogs = IF page = "payout" THEN <<>> ELSE ssr.blogs
  /\ articles = IF page = "payout" THEN SsrArticles ELSE <<>>
  /\ offlineArticles = Null
  /\ apiError = FALSE
  /\ propsRef = TRUE
  /\ hyd = Task("load", Null)
  /\ rf = Task(IF ~online THEN "none"
               ELSE IF page = "payout" THEN "fnbLoad" ELSE "check", Null)
  /\ off = Task(IF online THEN "none" ELSE "load", Null)
  /\ fbPending = IF page = "dashboard" /\ BothEmpty(ssr.news, ssr.blogs)
                 THEN 1 ELSE 0
  /\ netCalls = 0
  /\ fnbCalls = IF online /\ page = "payout" THEN 1 ELSE 0
  /\ answers = <<>>
  /\ fetched = Null
  /\ fbLoaded = None
  /\ ViewStart

\* the fallback effect runs again when news or blogs changed and both are empty
FallbackRuns(changed, n, b) ==
  IF changed /\ BothEmpty(n, b) THEN 1 ELSE 0

\* --------------------------------------------------------------- hydration
\* Home: the hydration effect, from the load to the put it issues; new
\* news and blogs arrays renew the articles memo, which runs the reset effect
HomeHydrate ==
  /\ page = "dashboard"
  /\ hyd.pc = "load"
  /\ LET cached == store[CacheKeyNewsBlogs] IN
     IF HasNewsBlogs(cached)
     THEN /\ news' = cached.news
          /\ blogs' = cached.blogs
          /\ offlineArticles' = BatchOf(cached)
          /\ propsRef' = FALSE
          /\ fbPending' = fbPending + FallbackRuns(TRUE, cached.news, cached.blogs)
          /\ filters' = ResetEffect(filters)
          /\ hyd' = Task("done", Null)
     ELSE /\ news' = ssr.news
          /\ blogs' = ssr.blogs
          /\ offlineArticles' = Null
          /\ propsRef' = TRUE
          /\ fbPending' = fbPending + FallbackRuns(~propsRef, ssr.news, ssr.blogs)
          /\ filters' = (IF ~propsRef THEN ResetEffect(filters) ELSE filters)
          /\ hyd' = Task("save", NewsBlogsEntry(ssr, now))
  /\ UNCHANGED <<store, now, articles, apiError, rf, off, history, fixed,
                 restOfView>>

\* NewsAnalytics: the hydration effect
AnalyticsHydrate ==
  /\ page = "analytics"
  /\ hyd.pc = "load"
  /\ LET cached == store[CacheKeyNewsBlogs] IN
     IF HasNewsBlogs(cached)
     THEN /\ news' = cached.news
          /\ blogs' = cached.blogs
          /\ propsRef' = FALSE
          /\ hyd' = Task("done", Null)
     ELSE /\ news' = ssr.news
          /\ blogs' = ssr.blogs
          /\ propsRef' = TRUE
          /\ hyd' = Task("save", NewsBlogsEntry(ssr, now))
  /\ UNCHANGED <<store, now, offlineArticles, articles, apiError, rf, off,
                 fbPending, history, fixed, viewVars>>

\* AdminPayout: the hydration effect
PayoutHydrate ==
  /\ page = "payout"
  /\ hyd.pc = "load"
  /\ LET cached == store[CacheKeyPayout] IN
     IF HasArticles(cached)
     THEN /\ articles' = cached.articles
          /\ propsRef' = FALSE
          /\ hyd' = Task("done", Null)
     ELSE /\ articles' = SsrArticles
          /\ propsRef' = TRUE
          /\ hyd' = Task("save", ArticlesEntry(SsrArticles, now))
  /\ UNCHANGED <<store, now, news, blogs, offlineArticles, apiError, rf, off,
                 fbPending, history, fixed, viewVars>>

\* the put issued by the hydration effect completes
HydrateSave ==
  /\ hyd.pc = "save"
  /\ store' = Put(store, PageKey(page), hyd.entry)
  /\ hyd' = Task("done", Null)
  /\ UNCHANGED <<now, pageState, rf, off, fbPending, history, fixed, viewVars>>

\* ----------------------------------------------------------------- refresh
\* Home: the refresh effect up to the call of the fetcher
HomeRefreshCheck ==
  /\ page = "dashboard"
  /\ rf.pc = "check"
  /\ LET cached == store[CacheKeyNewsBlogs] IN
     IF NoCachedBatch(cached)
     THEN /\ fnbCalls' = fnbCalls + 1
          /\ rf' = Task("fnbLoad", Null)
     ELSE /\ fnbCalls' = fnbCalls
          /\ rf' = Task("done", Null)
  /\ UNCHANGED <<store, now, pageState, hyd, off, fbPending, netCalls, answers,
                 fetched, fbLoaded, fixed, viewVars>>

\* NewsAnalytics: the refresh effect up to the call of the fetcher
AnalyticsRefreshCheck ==
  /\ page = "analytics"
  /\ rf.pc = "check"
  /\ LET cached == store[CacheKeyNewsBlogs] IN
     IF NoCachedBatch(cached)
     THEN /\ fnbCalls' = fnbCalls + 1
          /\ rf' = Task("fnbLoad", Null)
     ELSE /\ fnbCalls' = fnbCalls
          /\ rf' = Task("done", Null)
  /\ UNCHANGED <<store, now, pageState, hyd, off, fbPending, netCalls, answers,
                 fetched, fbLoaded, fixed, viewVars>>

\* a .then that also clears the error flag on success
HomeThenClearsError(batch) ==
  /\ news' = batch.news
  /\ blogs' = batch.blogs
  /\ offlineArticles' = batch
  /\ propsRef' = FALSE
  /\ fbPending' = fbPending + FallbackRuns(TRUE, batch.news, batch.blogs)
  /\ rf' = Task("pageSave", NewsBlogsEntry(batch, now))
  /\ filters' = ResetEffect(filters)
  /\ apiError' = FALSE
  /\ UNCHANGED articles

\* Home: .then(async ({ news, blogs }) => ...) up to the put it issues; the
\* new arrays renew the articles memo, which runs the reset effect
HomeThen(batch) ==
  /\ news' = batch.news
  /\ blogs' = batch.blogs
  /\ offlineArticles' = batch
  /\ propsRef' = FALSE
  /\ fbPending' = fbPending + FallbackRuns(TRUE, batch.news, batch.blogs)
  /\ rf' = Task("pageSave", NewsBlogsEntry(batch, now))
  /\ filters' = ResetEffect(filters)
  /\ UNCHANGED <<articles, apiError>>

\* NewsAnalytics: .then(async ({ news, blogs }) => ...) up to the put
AnalyticsThen(batch) ==
  /\ news' = batch.news
  /\ blogs' = batch.blogs
  /\ propsRef' = FALSE
  /\ rf' = Task("pageSave", NewsBlogsEntry(batch, now))
  /\ UNCHANGED <<offlineArticles, articles, apiError, fbPending, filters>>

\* AdminPayout: .then(async ({ news, blogs }) => ...) up to the put
PayoutThen(batch) ==
  /\ articles' = batch.news \o batch.blogs
  /\ propsRef' = FALSE
  /\ rf' = Task("pageSave", ArticlesEntry(batch.news \o batch.blogs, now))
  /\ UNCHANGED <<news, blogs, offlineArticles, apiError, fbPending, filters>>

\* a .then that yields to a hydration that has already set the state: the
\* first writer wins
ThenUnlessHydrated(batch) ==
  /\ fetched' = batch
  /\ IF hyd.pc = "load"
     THEN CASE page = "dashboard" -> HomeThen(batch)
            [] page = "analytics" -> AnalyticsThen(batch)
            [] OTHER -> PayoutThen(batch)
     ELSE /\ rf' = Task("pageSave",
                        IF page = "payout"
                        THEN ArticlesEntry(batch.news \o batch.blogs, now)
                        ELSE NewsBlogsEntry(batch, now))
          /\ UNCHANGED <<pageState, fbPending, filters>>

\* the fetcher's promise resolves: the page's .then runs in the same turn
Then(batch) ==
  /\ fetched' = batch
  /\ CASE page = "dashboard" -> HomeThen(batch)
       [] page = "analytics" -> AnalyticsThen(batch)
       [] OTHER -> PayoutThen(batch)

\* the fetcher's promise rejects: .catch(() => setApiError(true)) on Home,
\* .catch(() => {}) on the other two pages
Catch ==
  /\ apiError' = (IF page = "dashboard" THEN TRUE ELSE apiError)
  /\ rf' = Task("failed", Null)
  /\ UNCHANGED <<news, blogs, offlineArticles, articles, propsRef, fbPending,
                 fetched>>

\* fetchNewsAndBlogs in the browser: the cache entry is loaded; a fresh
\* entry is returned, otherwise the technology request is sent
FnbLoad ==
  /\ rf.pc = "fnbLoad"
  /\ LET cache == store[CacheKeyNewsBlogs] IN
     IF NewsBlogsCacheFresh(cache, now)
     THEN /\ Then(BatchOf(cache))
          /\ netCalls' = netCalls
     ELSE /\ rf' = Task("fnbNet", Null)
          /\ netCalls' = netCalls + 1
          /\ UNCHANGED <<pageState, fbPending, fetched, filters>>
  /\ UNCHANGED <<store, now, hyd, off, fnbCalls, answers, fbLoaded, fixed,
                 restOfView>>

\* fetchNewsAndBlogs: the provider answers the technology request, the
\* general request is sent and answered, and the put of the batch is issued
FnbAnswer ==
  /\ rf.pc = "fnbNet"
  /\ \E newsRes \in Responses :
       IF newsRes = Threw
       THEN /\ answers' = <<newsRes>>
            /\ netCalls' = netCalls
            /\ Catch
       ELSE \E blogsRes \in Responses :
              /\ answers' = <<newsRes, blogsRes>>
              /\ netCalls' = netCalls + 1
              /\ IF NewsBlogsThrows(newsRes, blogsRes)
                 THEN Catch
                 ELSE /\ rf' = Task("fnbSave",
                            NewsBlogsEntry(NewsBlogsBatch(newsRes, blogsRes), now))
                      /\ UNCHANGED <<pageState, fbPending, fetched>>
  /\ UNCHANGED <<store, now, hyd, off, fnbCalls, fbLoaded, fixed, viewVars>>

\* fetchNewsAndBlogs: its put completes and it returns { news, blogs }
FnbSave ==
  /\ rf.pc = "fnbSave"
  /\ store' = Put(store, CacheKeyNewsBlogs, rf.entry)
  /\ Then(BatchOf(rf.entry))
  /\ UNCHANGED <<now, hyd, off, netCalls, fnbCalls, answers, fbLoaded, fixed,
                 restOfView>>

\* the put issued by the page's .then completes
PageSave ==
  /\ rf.pc = "pageSave"
  /\ store' = Put(store, PageKey(page), rf.entry)
  /\ rf' = Task("done", Null)
  /\ UNCHANGED <<now, pageState, hyd, off, fbPending, history, fixed, viewVars>>

\* no timeout on the remote fetch: time passes while the provider is awaited
Tick ==
  /\ rf.pc = "fnbNet"
  /\ now < MaxNow
  /\ now' = now + 1
  /\ UNCHANGED <<store, pageState, hyd, rf, off, fbPending, history, fixed, viewVars>>

\* ----------------------------------------------------------------- offline
\* an offline effect that adopts an entry only if it holds an article
HomeOfflineNonEmptyOnly ==
  /\ page = "dashboard"
  /\ off.pc = "load"
  /\ LET cached == store[CacheKeyNewsBlogs] IN
     offlineArticles' =
       (IF HasNewsBlogs(cached) /\ ~BothEmpty(cached.news, cached.blogs)
        THEN BatchOf(cached) ELSE offlineArticles)
  /\ off' = Task("done", Null)
  /\ UNCHANGED <<store, now, news, blogs, articles, apiError, propsRef, hyd,
                 rf, fbPending, history, fixed, viewVars>>

\* Home: the offline effect
HomeOffline ==
  /\ page = "dashboard"
  /\ off.pc = "load"
  /\ LET cached == store[CacheKeyNewsBlogs] IN
     offlineArticles' =
       (IF HasNewsBlogs(cached) THEN BatchOf(cached) ELSE offlineArticles)
  /\ off' = Task("done", Null)
  /\ UNCHANGED <<store, now, news, blogs, articles, apiError, propsRef, hyd,
                 rf, fbPending, history, fixed, viewVars>>

\* NewsAnalytics: the offline effect
AnalyticsOffline ==
  /\ page = "analytics"
  /\ off.pc = "load"
  /\ LET cached == store[CacheKeyNewsBlogs] IN
     IF HasNewsBlogs(cached)
     THEN /\ news' = cached.news
          /\ blogs' = cached.blogs
          /\ propsRef' = FALSE
     ELSE UNCHANGED <<news, blogs, propsRef>>
  /\ off' = Task("done", Null)
  /\ UNCHANGED <<store, now, offlineArticles, articles, apiError, hyd, rf,
                 fbPending, history, fixed, viewVars>>

\* AdminPayout: the offline effect
PayoutOffline ==
  /\ page = "payout"
  /\ off.pc = "load"
  /\ LET cached == store[CacheKeyPayout] IN
     IF HasArticles(cached)
     THEN /\ articles' = cached.articles
          /\ propsRef' = FALSE
     ELSE UNCHANGED <<articles, propsRef>>
  /\ off' = Task("done", Null)
  /\ UNCHANGED <<store, now, news, blogs, offlineArticles, apiError, hyd, rf,
                 fbPending, history, fixed, viewVars>>

\* ---------------------------------------------------- empty-result fallback
\* Home: one run of the fallback effect
HomeFallback ==
  /\ page = "dashboard"
  /\ fbPending > 0
  /\ fbPending' = fbPending - 1
  /\ LET cached == store[CacheKeyNewsBlogs] IN
     /\ fbLoaded' = [entry |-> cached]
     /\ IF HasNewsBlogs(cached)
        THEN /\ offlineArticles' = BatchOf(cached)
             /\ apiError' = apiError
        ELSE /\ apiError' = TRUE
             /\ offlineArticles' = offlineArticles
  /\ UNCHANGED <<store, now, news, blogs, articles, propsRef, hyd, rf, off,
                 netCalls, fnbCalls, answers, fetched, fixed, viewVars>>

\* ------------------------------------------------- the fetcher, called alone
Call(fn, pc, entry, result) ==
  [fn |-> fn, pc |-> pc, entry |-> entry, result |-> result]

\* the articles an earlier fetchNews can have cached
NewsLists ==
  {NewsArticles(r) : r \in {h \in HttpResponses : h.ok}}

\* a direct call: getServerSideProps on the server (no window, no store), or
\* a call in the browser over a store earlier calls have written
CallInit ==
  /\ page = "none"
  /\ online = TRUE
  /\ window \in BOOLEAN
  /\ now = Now0
  /\ ssr = Null
  /\ \E fn \in {"fetchNews", "fetchNewsAndBlogs"} :
       call = Call(fn, "start", Null, Null)
  /\ \E n \in {Null} \cup {ArticlesEntry(l, t) : l \in NewsLists, t \in 0..now},
        nb \in {Null} \cup {NewsBlogsEntry(b, t) : b \in Batches, t \in 0..now} :
        /\ ~window => n = Null /\ nb = Null
        /\ store = [k \in CacheKeys |->
                      CASE k = CacheKeyNews -> n
                        [] k = CacheKeyNewsBlogs -> nb
                        [] OTHER -> Null]
  /\ store0 = store
  /\ news = <<>>
  /\ blogs = <<>>
  /\ articles = <<>>
  /\ offlineArticles = Null
  /\ apiError = FALSE
  /\ propsRef = TRUE
  /\ hyd = Task("none", Null)
  /\ rf = Task("none", Null)
  /\ off = Task("none", Null)
  /\ fbPending = 0
  /\ netCalls = 0
  /\ fnbCalls = 0
  /\ answers = <<>>
  /\ fetched = Null
  /\ fbLoaded = None
  /\ ViewStart

pageVars == <<pageState, hyd, rf, off, fbPending, fnbCalls, fetched, fbLoaded>>

\* fetchNews up to its request: a fresh entry is returned without one
NewsStart ==
  /\ call # None
  /\ call.fn = "fetchNews"
  /\ call.pc = "start"
  /\ LET cache == IF window THEN store[CacheKeyNews] ELSE Null IN
     IF NewsCacheFresh(cache, now)
     THEN /\ call' = Call("fetchNews", "returned", Null, cache.articles)
          /\ netCalls' = netCalls
     ELSE /\ call' = Call("fetchNews", "net", Null, Null)
          /\ netCalls' = netCalls + 1
  /\ UNCHANGED <<page, online, ssr, window, store0, store, now, answers, pageVars, viewVars>>

\* fetchNews: the provider answers
NewsAnswer ==
  /\ call # None
  /\ call.fn = "fetchNews"
  /\ call.pc = "net"
  /\ \E res \in Responses :
       /\ answers' = <<res>>
       /\ IF NewsThrows(res)
          THEN call' = Call("fetchNews", "threw", Null, Null)
          ELSE IF window
               THEN call' = Call("fetchNews", "save",
                                 ArticlesEntry(NewsArticles(res), now),
                                 NewsArticles(res))
               ELSE call' = Call("fetchNews", "returned", Null, NewsArticles(res))
  /\ UNCHANGED <<page, online, ssr, window, store0, store, now, netCalls, pageVars, viewVars>>

\* fetchNews: its put completes and it returns the articles
NewsSave ==
  /\ call # None
  /\ call.fn = "fetchNews"
  /\ call.pc = "save"
  /\ store' = Put(store, CacheKeyNews, call.entry)
  /\ call' = Call("fetchNews", "returned", Null, call.result)
  /\ UNCHANGED <<page, online, ssr, window, store0, now, netCalls, answers, pageVars, viewVars>>

\* fetchNewsAndBlogs up to its first request
NewsBlogsStart ==
  /\ call # None
  /\ call.fn = "fetchNewsAndBlogs"
  /\ call.pc = "start"
  /\ LET cache == IF window THEN store[CacheKeyNewsBlogs] ELSE Null IN
     IF NewsBlogsCacheFresh(cache, now)
     THEN /\ call' = Call("fetchNewsAndBlogs", "returned", Null, BatchOf(cache))
          /\ netCalls' = netCalls
     ELSE /\ call' = Call("fetchNewsAndBlogs", "net", Null, Null)
          /\ netCalls' = netCalls + 1
  /\ UNCHANGED <<page, online, ssr, window, store0, store, now, answers, pageVars, viewVars>>

\* fetchNewsAndBlogs: both requests are answered
NewsBlogsAnswer ==
  /\ call # None
  /\ call.fn = "fetchNewsAndBlogs"
  /\ call.pc = "net"
  /\ \E newsRes \in Responses :
       IF newsRes = Threw
       THEN /\ answers' = <<newsRes>>
            /\ netCalls' = netCalls
            /\ call' = Call("fetchNewsAndBlogs", "threw", Null, Null)
       ELSE \E blogsRes \in Responses :
              /\ answers' = <<newsRes, blogsRes>>
              /\ netCalls' = netCalls + 1
              /\ IF NewsBlogsThrows(newsRes, blogsRes)
                 THEN call' = Call("fetchNewsAndBlogs", "threw", Null, Null)
                 ELSE IF window
                      THEN call' = Call("fetchNewsAndBlogs", "save",
                               NewsBlogsEntry(NewsBlogsBatch(newsRes, blogsRes), now),
                               NewsBlogsBatch(newsRes, blogsRes))
                      ELSE call' = Call("fetchNewsAndBlogs", "returned", Null,
                               NewsBlogsBatch(newsRes, blogsRes))
  /\ UNCHANGED <<page, online, ssr, window, store0, store, now, pageVars, viewVars>>

\* a put that appends the fetched lists to the entry already stored
NewsBlogsSaveMerged ==
  /\ call # None
  /\ call.fn = "fetchNewsAndBlogs"
  /\ call.pc = "save"
  /\ LET prior == store[CacheKeyNewsBlogs] IN
     store' = Put(store, CacheKeyNewsBlogs,
                  IF prior = Null THEN call.entry
                  ELSE [call.entry EXCEPT !.news = prior.news \o @,
                                          !.blogs = prior.blogs \o @])
  /\ call' = Call("fetchNewsAndBlogs", "returned", Null, call.result)
  /\ UNCHANGED <<page, online, ssr, window, store0, now, netCalls, answers, pageVars, viewVars>>

\* fetchNewsAndBlogs: its put completes and it returns { news, blogs }
NewsBlogsSave ==
  /\ call # None
  /\ call.fn = "fetchNewsAndBlogs"
  /\ call.pc = "save"
  /\ store' = Put(store, CacheKeyNewsBlogs, call.entry)
  /\ call' = Call("fetchNewsAndBlogs", "returned", Null, call.result)
  /\ UNCHANGED <<page, online, ssr, window, store0, now, netCalls, answers, pageVars, viewVars>>

\* time passes while a direct call awaits the provider
CallTick ==
  /\ call # None
  /\ call.pc = "net"
  /\ now < MaxNow
  /\ now' = now + 1
  /\ UNCHANGED <<store, pageState, hyd, rf, off, fbPending, history, fixed, viewVars>>

\* ---------------------------------------------------- a settled page's data
\* the articles in one list of a settled page
MaxArticles == 2

\* the i-th article the provider has published: the fields the views read.
\* A string is the sequence of its characters.
Title(i) ==
  CASE i % 3 = 1 -> <<"F", "e", "d">>
    [] i % 3 = 2 -> <<"D", "E">>
    [] OTHER -> <<"e">>

\* item.description is null
NullDescription == <<"<null>">>

\* description is null, or a string (the empty one included)
Description(i) ==
  CASE i % 4 = 1 -> NullDescription
    [] i % 4 = 2 -> <<"f", "E", "D">>
    [] i % 4 = 3 -> <<>>
    [] OTHER -> <<"d">>

\* author is null, or a name (the name "Unknown" included)
Author(i) ==
  CASE i \in {1, 3, 4} -> "Jane"
    [] i % 6 = 0 -> "Unknown"
    [] OTHER -> NullAuthor

\* publishedAt, an ISO-8601 UTC timestamp: the day and the half of the day
\* (tick 0 is 00:00:00.000Z, tick 1 is any later time of the day)
PublishedAt(i) ==
  [day |-> (i + 1) \div 2, tick |-> IF i % 4 \in {2, 3} THEN 1 ELSE 0]

\* mapArticle's result for the i-th article
Article(i, type) ==
  [title |-> Title(i), description |-> Description(i), author |-> Author(i),
   publishedAt |-> PublishedAt(i), type |-> type]

ViewNews(n) ==
  [k \in 1..n |-> Article(2 * k - 1, "news")]

ViewBlogs(m) ==
  [k \in 1..m |-> Article(2 * k, "blogs")]

\* the values of the type selector
Types == {"news", "blogs", "all"}

\* what the user types into the search box
Terms == {<<>>, <<"f", "e", "d">>, <<"D", "e">>}

\* the values of a date input: cleared, or a day
DateInputs == {NoDate, 1, 2}

\* the values of a rate input (a number input delivers "" for any text that
\* is not a number)
RateInputs == {"", "-1", "3"}

\* the variables of the cache flow, which no user action changes
flowVars ==
  <<page, online, ssr, store, now, news, blogs, offlineArticles, articles,
    apiError, propsRef, hyd, rf, off, fbPending, netCalls, fnbCalls, answers,
    fetched, store0, fbLoaded, window, call>>

\* a user action and the state it found
Op(op, arg, prev) ==
  [op |-> op, arg |-> arg, prev |-> prev]

\* a page whose mount tasks have all ended: the dashboard over a displayed
\* batch and a snapshot (none, the same batch or another one), or the admin
\* payout page over a list
ViewInit ==
  /\ page \in {"dashboard", "payout"}
  /\ online = TRUE
  /\ window = TRUE
  /\ call = None
  /\ now = Now0
  /\ \E n \in 0..MaxArticles, m \in 0..MaxArticles :
       /\ ssr = [news |-> ViewNews(n), blogs |-> ViewBlogs(m)]
       /\ offlineArticles \in
            IF page = "dashboard"
            THEN {Null, ssr, [news |-> ViewNews(m), blogs |-> ViewBlogs(n)]}
            ELSE {Null}
  /\ news = IF page = "dashboard" THEN ssr.news ELSE <<>>
  /\ blogs = IF page = "dashboard" THEN ssr.blogs ELSE <<>>
  /\ articles = IF page = "payout" THEN SsrArticles ELSE <<>>
  /\ store = [k \in CacheKeys |->
                IF k # PageKey(page) THEN Null
                ELSE IF page = "payout" THEN ArticlesEntry(SsrArticles, now)
                ELSE NewsBlogsEntry(ssr, now)]
  /\ store0 = [k \in CacheKeys |-> Null]
  /\ apiError = FALSE
  /\ propsRef = TRUE
  /\ hyd = Task("done", Null)
  /\ rf = Task("done", Null)
  /\ off = Task("none", Null)
  /\ fbPending = 0
  /\ netCalls = 0
  /\ fnbCalls = 0
  /\ answers = <<>>
  /\ fetched = Null
  /\ fbLoaded = None
  /\ ViewStart

\* ------------------------------------------------- the dashboard's views
\* Home.articles: the memo over filters.type
HomeArticles ==
  IF filters.type = "all" THEN news \o blogs
  ELSE IF filters.type = "news" THEN news
  ELSE blogs

\* a.author || "Unknown" (null and "" are falsy)
AuthorOrUnknown(a) ==
  IF a.author = NullAuthor \/ a.author = "" THEN "Unknown" ELSE a.author

\* Array.from(new Set(list)): the first occurrences, in order
RECURSIVE Distinct(_)
Distinct(list) ==
  IF list = <<>> THEN <<>>
  ELSE LET front == Distinct(SubSeq(list, 1, Len(list) - 1))
           x == list[Len(list)]
       IN IF \E i \in 1..Len(front) : front[i] = x THEN front
          ELSE Append(front, x)

\* Home.authors: the options of the author selector
HomeAuthors ==
  <<"All">> \o
  Distinct([i \in 1..Len(HomeArticles) |-> AuthorOrUnknown(HomeArticles[i])])

\* Home.articlesToUse
articlesToUse ==
  IF offlineArticles # Null
  THEN IF filters.type = "all" THEN offlineArticles.news \o offlineArticles.blogs
       ELSE IF filters.type = "news" THEN offlineArticles.news
       ELSE offlineArticles.blogs
  ELSE HomeArticles

Lower(c) ==
  CASE c = "F" -> "f"
    [] c = "E" -> "e"
    [] c = "D" -> "d"
    [] OTHER -> c

\* String.prototype.toLowerCase
toLowerCase(str) ==
  [i \in 1..Len(str) |-> Lower(str[i])]

\* String.prototype.includes
includes(str, part) ==
  \E k \in 0..(Len(str) - Len(part)) : SubSeq(str, k + 1, k + Len(part)) = part

\* a search that compares the strings as they are
matchesSearchExact(article) ==
  \/ includes(article.title, filters.searchTerm)
  \/ /\ article.description # NullDescription
     /\ includes(article.description, filters.searchTerm)

\* filtered: matchesSearch (description?. yields undefined on null)
matchesSearch(article) ==
  \/ includes(toLowerCase(article.title), toLowerCase(filters.searchTerm))
  \/ /\ article.description # NullDescription
     /\ includes(toLowerCase(article.description),
                 toLowerCase(filters.searchTerm))

\* filtered: matchesAuthor
matchesAuthor(article) ==
  \/ filters.selectedAuthor = "All"
  \/ AuthorOrUnknown(article) = filters.selectedAuthor

\* new Date(article.publishedAt).valueOf(), in half days
DateOfTimestamp(publishedAt) ==
  2 * publishedAt.day + publishedAt.tick

\* new Date("YYYY-MM-DD").valueOf(): 00:00:00.000Z of that day, in half days
DateOfDay(day) ==
  2 * day

\* filtered: matchesStart ("" is falsy)
matchesStart(article) ==
  IF filters.startDate # NoDate
  THEN DateOfTimestamp(article.publishedAt) >= DateOfDay(filters.startDate)
  ELSE TRUE

\* filtered: matchesEnd
matchesEnd(article) ==
  IF filters.endDate # NoDate
  THEN DateOfTimestamp(article.publishedAt) <= DateOfDay(filters.endDate)
  ELSE TRUE

\* Array.prototype.filter with the callback of Home.filtered
RECURSIVE FilterHome(_)
FilterHome(list) ==
  IF list = <<>> THEN <<>>
  ELSE LET front == FilterHome(SubSeq(list, 1, Len(list) - 1))
           article == list[Len(list)]
       IN IF /\ matchesSearch(article)
             /\ matchesAuthor(article)
             /\ matchesStart(article)
             /\ matchesEnd(article)
          THEN Append(front, article)
          ELSE front

\* Home.filtered
filtered ==
  FilterHome(articlesToUse)

\* the type selector changes: dispatch(setType(value)); the render that
\* follows runs the reset effect, filters.type being one of its dependencies
HomeSetType ==
  /\ page = "dashboard"
  /\ \E t \in Types \ {filters.type} :
       /\ filters' = ResetEffect(setType(filters, t))
       /\ lastOp' = Op("setType", t, filters)
  /\ UNCHANGED <<selectedAuthor, selectedType, payoutRates, flowVars,
               sheet>>

\* the search box changes
HomeSetSearchTerm ==
  /\ page = "dashboard"
  /\ \E term \in Terms \ {filters.searchTerm} :
       /\ filters' = setSearchTerm(filters, term)
       /\ lastOp' = Op("setSearchTerm", term, filters)
  /\ UNCHANGED <<selectedAuthor, selectedType, payoutRates, flowVars,
               sheet>>

\* the author selector changes: one of its options
HomeSetSelectedAuthor ==
  /\ page = "dashboard"
  /\ \E i \in 1..Len(HomeAuthors) :
       /\ HomeAuthors[i] # filters.selectedAuthor
       /\ filters' = setSelectedAuthor(filters, HomeAuthors[i])
       /\ lastOp' = Op("setSelectedAuthor", HomeAuthors[i], filters)
  /\ UNCHANGED <<selectedAuthor, selectedType, payoutRates, flowVars,
               sheet>>

\* the start date input changes
HomeSetStartDate ==
  /\ page = "dashboard"
  /\ \E d \in DateInputs \ {filters.startDate} :
       /\ filters' = setStartDate(filters, d)
       /\ lastOp' = Op("setStartDate", d, filters)
  /\ UNCHANGED <<selectedAuthor, selectedType, payoutRates, flowVars,
               sheet>>

\* the end date input changes
HomeSetEndDate ==
  /\ page = "dashboard"
  /\ \E d \in DateInputs \ {filters.endDate} :
       /\ filters' = setEndDate(filters, d)
       /\ lastOp' = Op("setEndDate", d, filters)
  /\ UNCHANGED <<selectedAuthor, selectedType, payoutRates, flowVars,
               sheet>>

\* the user leaves the dashboard and comes back by the navbar's links: the
\* Redux store survives, Home mounts again and its reset effect runs
HomeResetEffect ==
  /\ page = "dashboard"
  /\ filters' = ResetEffect(filters)
  /\ lastOp' = Op("resetFilters", None, filters)
  /\ UNCHANGED <<selectedAuthor, selectedType, payoutRates, flowVars,
               sheet>>

\* ----------------------------------------------- the admin payout's views
\* AdminPayout.authors: the options of the author selector
PayoutAuthors ==
  <<"All">> \o
  Distinct([i \in 1..Len(articles) |-> AuthorOrUnknown(articles[i])])

\* AdminPayout.types: the options of the type selector
PayoutTypes ==
  <<"All">> \o Distinct([i \in 1..Len(articles) |-> articles[i].type])

\* Array.prototype.filter with the callback of AdminPayout.filteredArticles
RECURSIVE FilterPayout(_)
FilterPayout(list) ==
  IF list = <<>> THEN <<>>
  ELSE LET front == FilterPayout(SubSeq(list, 1, Len(list) - 1))
           a == list[Len(list)]
       IN IF /\ selectedAuthor = "All" \/ AuthorOrUnknown(a) = selectedAuthor
             /\ selectedType = "All" \/ a.type = selectedType
          THEN Append(front, a)
          ELSE front

\* AdminPayout.filteredArticles
filteredArticles ==
  FilterPayout(articles)

\* the key `${author}|||${type}`
AuthorTypeKey(author, type) ==
  <<author, type>>

\* the forEach of AdminPayout.grouped: the map's values in insertion order
RECURSIVE GroupedOf(_)
GroupedOf(list) ==
  IF list = <<>> THEN <<>>
  ELSE LET map == GroupedOf(SubSeq(list, 1, Len(list) - 1))
           a == list[Len(list)]
           author == AuthorOrUnknown(a)
           key == AuthorTypeKey(author, a.type)
           Has(i) == AuthorTypeKey(map[i].author, map[i].type) = key
       IN IF \E i \in 1..Len(map) : Has(i)
          THEN [i \in 1..Len(map) |->
                  IF Has(i) THEN [map[i] EXCEPT !.count = @ + 1] ELSE map[i]]
          ELSE Append(map, [author |-> author, type |-> a.type, count |-> 1])

\* Object.values(grouped)
grouped ==
  GroupedOf(filteredArticles)

\* the rate of a group no rate was set for, in hundredths
DefaultRate == 200

\* Number(value) of a rate input's value, in hundredths
Number(value) ==
  CASE value = "" -> 0
    [] value = "-1" -> 0 - 100
    [] value = "3" -> 300

\* a rate read with || in place of ??: a rate of 0 falls back to the default
RateOrDefaultFalsy(rates, key) ==
  IF key \in DOMAIN rates /\ rates[key] # 0 THEN rates[key] ELSE DefaultRate

\* payoutRates[key] ?? 2
RateOrDefault(rates, key) ==
  IF key \in DOMAIN rates THEN rates[key] ELSE DefaultRate

\* x.toFixed(2) of an amount given in hundredths
toFixed2(hundredths) ==
  [units |-> hundredths \div 100, cents |-> hundredths % 100]

\* the table's rows: author, type, count, the rate input, the total
TableRows ==
  [i \in 1..Len(grouped) |->
     LET g == grouped[i]
         rate == RateOrDefault(payoutRates, AuthorTypeKey(g.author, g.type))
     IN [author |-> g.author, type |-> g.type, count |-> g.count,
         rate |-> rate, total |-> toFixed2(g.count * rate)]]

\* handleCSVExport: rows
CsvRows ==
  [i \in 1..Len(grouped) |->
     LET g == grouped[i]
         rate == RateOrDefault(payoutRates, AuthorTypeKey(g.author, g.type))
     IN <<g.author, g.type, g.count, rate, toFixed2(g.count * rate)>>]

\* handlePDFExport: body
PdfRows ==
  [i \in 1..Len(grouped) |->
     LET g == grouped[i]
     IN <<g.author, g.type, g.count,
          RateOrDefault(payoutRates, AuthorTypeKey(g.author, g.type)),
          toFixed2(g.count *
                   RateOrDefault(payoutRates, AuthorTypeKey(g.author, g.type)))>>]

\* handleGoogleSheetExport: rows
SheetRows ==
  [i \in 1..Len(grouped) |->
     LET g == grouped[i]
         rate == RateOrDefault(payoutRates, AuthorTypeKey(g.author, g.type))
     IN [author |-> g.author, type |-> g.type, articles |-> g.count,
         ratePerArticle |-> rate, totalPayout |-> toFixed2(g.count * rate)]]

\* handleRateChange: the rates after it (a number input's value is never
\* NaN under Number)
handleRateChange(rates, author, type, value) ==
  LET key == AuthorTypeKey(author, type)
      num == Number(value)
  IN IF num >= 0
     THEN [k \in DOMAIN rates \cup {key} |-> IF k = key THEN num ELSE rates[k]]
     ELSE rates

\* the author selector changes
PayoutSetSelectedAuthor ==
  /\ page = "payout"
  /\ \E i \in 1..Len(PayoutAuthors) :
       /\ PayoutAuthors[i] # selectedAuthor
       /\ selectedAuthor' = PayoutAuthors[i]
       /\ lastOp' = Op("setSelectedAuthor", PayoutAuthors[i], payoutRates)
  /\ UNCHANGED <<filters, selectedType, payoutRates, flowVars,
               sheet>>

\* the type selector changes
PayoutSetSelectedType ==
  /\ page = "payout"
  /\ \E i \in 1..Len(PayoutTypes) :
       /\ PayoutTypes[i] # selectedType
       /\ selectedType' = PayoutTypes[i]
       /\ lastOp' = Op("setSelectedType", PayoutTypes[i], payoutRates)
  /\ UNCHANGED <<filters, selectedAuthor, payoutRates, flowVars,
               sheet>>

\* the rate input of a row of the table changes
PayoutRateChange ==
  /\ page = "payout"
  /\ \E i \in 1..Len(grouped), value \in RateInputs :
       /\ payoutRates' = handleRateChange(payoutRates, grouped[i].author,
                                          grouped[i].type, value)
       /\ lastOp' = Op("handleRateChange",
                       <<grouped[i].author, grouped[i].type, value>>,
                       payoutRates)
  /\ UNCHANGED <<filters, selectedAuthor, selectedType, flowVars,
               sheet>>

\* ------------------------------------------------- the spreadsheet export
\* how a POST to the spreadsheet endpoint ends: response.ok, a response
\* that is not ok, or a rejected fetch
PostResponses == {"ok", "notOk", "threw"}

\* no alert raised
NoAlert == <<>>

\* alert("All payout data exported to Google Sheet!")
SuccessAlert == <<"All payout data exported to Google Sheet!">>

\* alert("Export failed: " + err.message) for the Error thrown on a response
\* that is not ok
FailedToExport(row) ==
  <<"Export failed: ", "Failed to export: ", row.author, " - ", row.type>>

\* alert("Export failed: " + err.message) for a rejected fetch
FetchRejected == <<"Export failed: ", "Failed to fetch">>

\* handleGoogleSheetExport up to its first await: the rows are prepared and
\* the first one is POSTed; without rows it runs to its end
handleGoogleSheetExport ==
  /\ page = "payout"
  /\ ~sheet.exporting
  /\ sheet' = IF Len(SheetRows) = 0
              THEN Export(FALSE, <<>>, <<>>, <<>>, SuccessAlert)
              ELSE Export(TRUE, SheetRows, <<SheetRows[1]>>, <<>>, NoAlert)
  /\ UNCHANGED <<filters, selectedAuthor, selectedType, payoutRates, lastOp,
                 flowVars>>

\* a loop that goes on to the next row after a response that is not ok
SheetPostAnsweredIgnoringStatus ==
  /\ sheet.exporting
  /\ \E res \in PostResponses :
       LET i == Len(sheet.posts)
           responses == Append(sheet.responses, res)
       IN sheet' =
            CASE res = "threw" ->
                   Export(FALSE, sheet.rows, sheet.posts, responses,
                          FetchRejected)
              [] res # "threw" /\ i < Len(sheet.rows) ->
                   Export(TRUE, sheet.rows,
                          Append(sheet.posts, sheet.rows[i + 1]), responses,
                          NoAlert)
              [] OTHER ->
                   Export(FALSE, sheet.rows, sheet.posts, responses,
                          SuccessAlert)
  /\ UNCHANGED <<filters, selectedAuthor, selectedType, payoutRates, lastOp,
                 flowVars>>

\* handleGoogleSheetExport: the awaited POST ends; the loop goes on to the
\* next row, or the handler alerts and, in finally, clears the flag
SheetPostAnswered ==
  /\ sheet.exporting
  /\ \E res \in PostResponses :
       LET i == Len(sheet.posts)
           responses == Append(sheet.responses, res)
       IN sheet' =
            CASE res = "threw" ->
                   Export(FALSE, sheet.rows, sheet.posts, responses,
                          FetchRejected)
              [] res = "notOk" ->
                   Export(FALSE, sheet.rows, sheet.posts, responses,
                          FailedToExport(sheet.rows[i]))
              [] res = "ok" /\ i < Len(sheet.rows) ->
                   Export(TRUE, sheet.rows,
                          Append(sheet.posts, sheet.rows[i + 1]), responses,
                          NoAlert)
              [] OTHER ->
                   Export(FALSE, sheet.rows, sheet.posts, responses,
                          SuccessAlert)
  /\ UNCHANGED <<filters, selectedAuthor, selectedType, payoutRates, lastOp,
                 flowVars>>

\* --------------------------------------------------------------- the system
Init ==
  \/ MountInit
  \/ CallInit

Next ==
  \/ HomeHydrate
  \/ AnalyticsHydrate
  \/ PayoutHydrate
  \/ HydrateSave
  \/ HomeRefreshCheck
  \/ AnalyticsRefreshCheck
  \/ FnbLoad
  \/ FnbAnswer
  \/ FnbSave
  \/ PageSave
  \/ Tick
  \/ HomeOffline
  \/ AnalyticsOffline
  \/ PayoutOffline
  \/ HomeFallback
  \/ NewsStart
  \/ NewsAnswer
  \/ NewsSave
  \/ NewsBlogsStart
  \/ NewsBlogsAnswer
  \/ NewsBlogsSave
  \/ CallTick

Spec == Init /\ [][Next]_vars

\* the user's actions on a settled page
ViewNext ==
  \/ HomeSetType
  \/ HomeSetSearchTerm
  \/ HomeSetSelectedAuthor
  \/ HomeSetStartDate
  \/ HomeSetEndDate
  \/ HomeResetEffect
  \/ PayoutSetSelectedAuthor
  \/ PayoutSetSelectedType
  \/ PayoutRateChange

ViewSpec == ViewInit /\ [][ViewNext]_vars

\* no export was started so far
NoExportYet ==
  ~sheet.exporting /\ sheet.alert = NoAlert

\* the admin payout page with its spreadsheet export: the user picks an
\* author and edits rates, then exports, any number of times; the type
\* selector changes at any time, also while an export is in flight; every
\* POST sent is answered or rejected in the end
SheetInit ==
  /\ ViewInit
  /\ page = "payout"

SheetNext ==
  \/ NoExportYet /\ PayoutSetSelectedAuthor
  \/ NoExportYet /\ PayoutRateChange
  \/ PayoutSetSelectedType
  \/ handleGoogleSheetExport
  \/ SheetPostAnswered

SheetSpec == SheetInit /\ [][SheetNext]_vars /\ WF_vars(SheetPostAnswered)

\* the dashboard mounted online while the user types in the search box: the
\* tasks of the mount interleaved with the search input's onChange
DashInit ==
  /\ MountInit
  /\ page = "dashboard"
  /\ online

DashNext ==
  \/ HomeHydrate
  \/ HydrateSave
  \/ HomeRefreshCheck
  \/ FnbLoad
  \/ FnbAnswer
  \/ FnbSave
  \/ PageSave
  \/ HomeFallback
  \/ HomeSetSearchTerm

DashSpec == DashInit /\ [][DashNext]_vars

\* every task of the mount has run to its end
Quiescent ==
  /\ page \in Pages
  /\ hyd.pc = "done"
  /\ rf.pc \in {"none", "done", "failed"}
  /\ off.pc \in {"none", "done"}
  /\ fbPending = 0

\* the direct call has returned or thrown
CallEnded ==
  /\ call # None
  /\ call.pc \in {"returned", "threw"}

\* ================================================================== claims
\* the entry under the page's key when the page mounted
Cached0 ==
  store0[PageKey(page)]

\* the page's own test finds a cached batch in the store at mount
CachedAtMount ==
  /\ page \in Pages
  /\ IF page = "payout"
     THEN Cached0 # Null /\ Len(Cached0.articles) > 0
     ELSE Cached0 # Null

\* C1 (as stated): on each of the three pages, a cached batch present under
\* the page's key at mount is adopted and no request is sent to the provider
\* during the mount, online and stale included.
C1_Original ==
  CachedAtMount =>
    /\ netCalls = 0
    /\ hyd.pc = "done" => Displayed = EntryBatch(page, Cached0)

\* C1 (amended): on the dashboard and the analytics page a cached batch
\* present at mount is adopted, the fetcher is not called and no request is
\* sent, whatever the entry's age; on the admin payout page an online mount
\* calls the fetcher whatever the store holds, and a request is sent as soon
\* as the fetcher finds no entry younger than one hour under
\* "newsapi_news_blogs".
C1_CachedBatchAdopted ==
  /\ (CachedAtMount /\ page # "payout") =>
        /\ netCalls = 0
        /\ fnbCalls = 0
        /\ hyd.pc = "done" => Displayed = EntryBatch(page, Cached0)
  /\ (page = "payout" /\ online) =>
        /\ fnbCalls = 1
        /\ (/\ rf.pc # "fnbLoad"
            /\ \/ store0[CacheKeyNewsBlogs] = Null
               \/ Now0 - store0[CacheKeyNewsBlogs].timestamp >= Hour)
           => netCalls >= 1

\* C1 witness: the dashboard, online, has adopted an entry older than one
\* hour that differs from the props, and every task has ended
C1_Witness ==
  /\ page = "dashboard"
  /\ online
  /\ Quiescent
  /\ Cached0 # Null
  /\ now - Cached0.timestamp > Hour
  /\ BatchOf(Cached0) # ssr
  /\ Displayed = BatchOf(Cached0)
  /\ netCalls = 0

\* C2 (as stated): no cached batch under the page's key at mount and the
\* browser online: the fetcher is called exactly once in the mount, and once
\* the fetch has succeeded the store holds the fetched batch under the page's
\* key, in every interleaving of the hydration and the refresh task.
C2_Original ==
  (page \in Pages /\ Cached0 = Null /\ online /\ Quiescent) =>
    /\ fnbCalls = 1
    /\ fetched # Null =>
         /\ store[PageKey(page)] # Null
         /\ EntryBatch(page, store[PageKey(page)]) = FreshBatch(page, fetched)

\* C3: no cached batch at mount and the browser offline: the dashboard
\* displays the server-rendered batch, and the API-error flag is false unless
\* the server-rendered news and blogs are both empty.
C3_OfflineShowsSsr ==
  (page = "dashboard" /\ Cached0 = Null /\ ~online) =>
    /\ Displayed = ssr
    /\ apiError => (Len(ssr.news) = 0 /\ Len(ssr.blogs) = 0)

\* C3 witness: offline dashboard without cache, every task ended, the
\* offline effect has adopted the props that hydration persisted
C3_Witness ==
  /\ page = "dashboard"
  /\ ~online
  /\ Cached0 = Null
  /\ Quiescent
  /\ Len(ssr.news) > 0
  /\ offlineArticles = ssr
  /\ ~apiError

\* the hydration task has just run from its load to the put it issues
HydrateLoaded ==
  hyd.pc = "load" /\ hyd'.pc # "load"

\* C4: the hydration step.  With a valid batch under the page's key the
\* displayed batch becomes that batch (whatever its age), it is the snapshot,
\* and the store is not written; otherwise the displayed batch becomes the
\* server-rendered one, the snapshot is cleared, and the put that follows
\* leaves the server-rendered batch under the page's key.
C4_Hydration ==
  [][/\ HydrateLoaded =>
         LET cached == store[PageKey(page)] IN
         IF cached # Null /\ (page = "payout" => Len(cached.articles) > 0)
         THEN /\ Displayed' = EntryBatch(page, cached)
              /\ page = "dashboard" => offlineArticles' = BatchOf(cached)
              /\ hyd'.pc = "done"
              /\ store' = store
         ELSE /\ Displayed' = SsrBatch
              /\ offlineArticles' = Null
              /\ hyd'.pc = "save"
              /\ store' = store
     /\ (hyd.pc = "save" /\ hyd'.pc = "done") =>
         /\ store'[PageKey(page)] # Null
         /\ EntryBatch(page, store'[PageKey(page)]) = SsrBatch
         /\ \A k \in CacheKeys \ {PageKey(page)} : store'[k] = store[k]
    ]_vars

\* C4 witness: hydration found no entry, cleared the snapshot, displays the
\* props and has persisted them, before the refresh task has run
C4_Witness ==
  /\ page = "dashboard"
  /\ Cached0 = Null
  /\ hyd.pc = "done"
  /\ rf.pc = "check"
  /\ offlineArticles = Null
  /\ Len(ssr.news) > 0
  /\ Displayed = ssr
  /\ store[CacheKeyNewsBlogs] # Null
  /\ BatchOf(store[CacheKeyNewsBlogs]) = ssr

\* the provider answered a request of the fetcher with a failure: the fetch
\* threw or the response is not a success response
FetchFailed ==
  \E i \in 1..Len(answers) : answers[i] = Threw \/ ~answers[i].ok

\* C5 (as stated): when the fetch started by the refresh fails, the refresh
\* changes neither the displayed batch nor the store (its .then never runs)
\* and the page's API-error flag is raised, on each page that runs the step.
C5_Original ==
  (page \in Pages /\ FetchFailed /\ rf.pc \in {"done", "failed"}) =>
    /\ apiError
    /\ fetched = Null

\* C6 (as stated): when the fallback's load finds no entry, or an entry with
\* empty news and empty blogs, the API-error flag is raised.
C6_Original ==
  (/\ page = "dashboard"
   /\ fbLoaded # None
   /\ \/ fbLoaded.entry = Null
      \/ Len(fbLoaded.entry.news) + Len(fbLoaded.entry.blogs) = 0)
  => apiError

\* C7: the dashboard's API-error flag is terminal: no step sets it back to
\* false, and the step that raises it calls no fetcher and leaves the
\* refresh task either untouched or ended.
C7_ErrorTerminal ==
  [][/\ apiError => apiError'
     /\ (~apiError /\ apiError') =>
          /\ fnbCalls' = fnbCalls
          /\ rf' = rf \/ rf'.pc = "failed"
    ]_vars

\* C7 witness: the flag was raised by the fallback and is still up after the
\* refresh succeeded with articles and every task ended
C7_Witness ==
  /\ page = "dashboard"
  /\ apiError
  /\ Quiescent
  /\ fetched # Null
  /\ Len(news) > 0
  /\ rf.pc = "done"

\* C8 (as stated): fetchNews and fetchNewsAndBlogs throw whenever a provider
\* response is a non-success response; no batch is returned and the store is
\* not written.
C8_Original ==
  (/\ CallEnded
   /\ \E i \in 1..Len(answers) : answers[i] # Threw /\ ~answers[i].ok)
  => /\ call.pc = "threw"
     /\ store = store0

AllOfType(list, t) ==
  \A i \in 1..Len(list) : list[i].type = t

NewsOrBlogs(list) ==
  \A i \in 1..Len(list) : list[i].type \in {"news", "blogs"}

EntryTyped(entry) ==
  \/ entry = Null
  \/ /\ "articles" \in DOMAIN entry
     /\ NewsOrBlogs(entry.articles)
  \/ /\ "news" \in DOMAIN entry
     /\ NewsOrBlogs(entry.news)
     /\ NewsOrBlogs(entry.blogs)

\* C9: fetchNews returns only "news" articles; fetchNewsAndBlogs returns
\* "news" articles in news and "blogs" articles in blogs; every article in a
\* page's state, in a pending put and in the store is "news" or "blogs".
C9_ArticleTypes ==
  /\ (call # None /\ call.pc \in {"save", "returned"}) =>
       IF call.fn = "fetchNews"
       THEN AllOfType(call.result, "news")
       ELSE /\ AllOfType(call.result.news, "news")
            /\ AllOfType(call.result.blogs, "blogs")
  /\ fetched # Null =>
       /\ AllOfType(fetched.news, "news")
       /\ AllOfType(fetched.blogs, "blogs")
  /\ NewsOrBlogs(news)
  /\ NewsOrBlogs(blogs)
  /\ NewsOrBlogs(articles)
  /\ offlineArticles # Null =>
       NewsOrBlogs(offlineArticles.news) /\ NewsOrBlogs(offlineArticles.blogs)
  /\ \A k \in CacheKeys : EntryTyped(store[k])
  /\ EntryTyped(hyd.entry)
  /\ EntryTyped(rf.entry)

\* C9 witness: fetchNewsAndBlogs has mapped both provider lists and stored them
C9_Witness ==
  /\ call # None
  /\ call.fn = "fetchNewsAndBlogs"
  /\ call.pc = "returned"
  /\ Len(answers) = 2
  /\ Len(call.result.news) > 0
  /\ Len(call.result.blogs) > 0
  /\ store[CacheKeyNewsBlogs] # Null
  /\ BatchOf(store[CacheKeyNewsBlogs]) = call.result

\* the key a direct call reads its cache from
CallKey ==
  IF call.fn = "fetchNews" THEN CacheKeyNews ELSE CacheKeyNewsBlogs

\* C10 (as stated): an entry more than one hour old is stale, and a page
\* mount or a fetcher call made online over a stale entry attempts a refetch.
C10_Original ==
  /\ (/\ Quiescent
      /\ online
      /\ Cached0 # Null
      /\ Now0 - Cached0.timestamp > Hour) => netCalls >= 1
  /\ (/\ CallEnded
      /\ window
      /\ store0[CallKey] # Null
      /\ Now0 - store0[CallKey].timestamp > Hour) => netCalls >= 1

\* every request the fetcher sent was answered with a failure
EveryAttemptFailed ==
  /\ Len(answers) > 0
  /\ \A i \in 1..Len(answers) : answers[i] = Threw \/ ~answers[i].ok

\* C11 (as stated): an entry older than one hour is still usable as a
\* fallback: when every network attempt fails or the browser is offline, the
\* caller of the fetcher gets the stale entry's articles (no error, no empty
\* result), the page displays them, and the entry stays in the store.
C11_Original ==
  /\ (/\ CallEnded
      /\ window
      /\ store0[CallKey] # Null
      /\ Now0 - store0[CallKey].timestamp > Hour
      /\ EveryAttemptFailed)
     => /\ call.pc = "returned"
        /\ call.result = (IF call.fn = "fetchNews"
                          THEN store0[CallKey].articles
                          ELSE BatchOf(store0[CallKey]))
        /\ store[CallKey] = store0[CallKey]
  /\ (/\ Quiescent
      /\ CachedAtMount
      /\ Now0 - Cached0.timestamp > Hour
      /\ ~online \/ EveryAttemptFailed)
     => /\ Displayed = EntryBatch(page, Cached0)
        /\ store[PageKey(page)] = Cached0

\* the puts issued and not yet completed, as <<key, value>>
PendingPuts ==
  (IF hyd.pc = "save" THEN {<<PageKey(page), hyd.entry>>} ELSE {})
  \cup (IF rf.pc = "fnbSave" THEN {<<CacheKeyNewsBlogs, rf.entry>>} ELSE {})
  \cup (IF rf.pc = "pageSave" THEN {<<PageKey(page), rf.entry>>} ELSE {})
  \cup (IF call # None /\ call.pc = "save"
        THEN {<<CallKey, call.entry>>} ELSE {})

\* this step leaves value e under key k and every other key as it was
PutDone(k, e) ==
  /\ store'[k] = e
  /\ \A j \in CacheKeys \ {k} : store'[j] = store[j]

\* list holds one article per item of the provider's list, in its order
ExactlyFetched(list, res) ==
  /\ Len(list) = Len(DataArticles(res))
  /\ \A i \in 1..Len(list) :
       /\ list[i].title = DataArticles(res)[i].title
       /\ list[i].author = DataArticles(res)[i].author

\* C12: the store's round trip.  A key's value changes only when a put on
\* that key completes; the put leaves exactly the value it was given (after
\* a fetch: one article per fetched item, nothing of the previous entry) and
\* leaves every other key unchanged; a load returns the value under its key,
\* which for a key never written is the absent indicator.
C12_StoreRoundTrip ==
  [][/\ \A k \in CacheKeys :
          store'[k] # store[k] => \E p \in PendingPuts : p[1] = k
     /\ (hyd.pc = "save" /\ hyd'.pc = "done")
          => PutDone(PageKey(page), hyd.entry)
     /\ (rf.pc = "pageSave" /\ rf'.pc = "done")
          => PutDone(PageKey(page), rf.entry)
     /\ (rf.pc = "fnbSave" /\ rf'.pc # "fnbSave")
          => /\ PutDone(CacheKeyNewsBlogs, rf.entry)
             /\ ExactlyFetched(store'[CacheKeyNewsBlogs].news, answers[1])
             /\ ExactlyFetched(store'[CacheKeyNewsBlogs].blogs, answers[2])
     /\ (call # None /\ call.pc = "save" /\ call'.pc = "returned")
          => /\ PutDone(CallKey, call.entry)
             /\ IF call.fn = "fetchNews"
                THEN ExactlyFetched(store'[CallKey].articles, answers[1])
                ELSE /\ ExactlyFetched(store'[CallKey].news, answers[1])
                     /\ ExactlyFetched(store'[CallKey].blogs, answers[2])
     /\ fbLoaded' # fbLoaded => fbLoaded'.entry = store[CacheKeyNewsBlogs]
     /\ (hyd.pc = "load" /\ hyd'.pc = "done") => store[PageKey(page)] # Null
    ]_vars

\* C12 witness: fetchNewsAndBlogs fetched an empty technology list over an
\* entry that held an article: the stored news list is empty, the entry
\* under "newsapi_news" is as it was, and the key never written is absent
C12_Witness ==
  /\ call # None
  /\ call.fn = "fetchNewsAndBlogs"
  /\ call.pc = "returned"
  /\ netCalls = 2
  /\ store0[CacheKeyNewsBlogs] # Null
  /\ Len(store0[CacheKeyNewsBlogs].news) > 0
  /\ answers[1].ok
  /\ Len(store[CacheKeyNewsBlogs].news) = 0
  /\ Len(store[CacheKeyNewsBlogs].blogs) > 0
  /\ store0[CacheKeyNews] # Null
  /\ store[CacheKeyNews] = store0[CacheKeyNews]
  /\ store[CacheKeyPayout] = Null

\* the four sub-filters hold their defaults
SubFiltersReset(state) ==
  /\ state.selectedAuthor = "All"
  /\ state.searchTerm = <<>>
  /\ state.startDate = NoDate
  /\ state.endDate = NoDate

\* C13: for every prior filter state and every t in {"news", "blogs", "all"}
\* the state after setType(t) has type = t, selectedAuthor = "All" and
\* searchTerm, startDate and endDate empty; so has the store once the type
\* selector's handler has run.
C13_SetTypeResets ==
  /\ \A t \in Types :
       /\ setType(filters, t).type = t
       /\ SubFiltersReset(setType(filters, t))
  /\ (lastOp # None /\ lastOp.op = "setType") =>
       /\ filters.type = lastOp.arg
       /\ SubFiltersReset(filters)

\* C13 witness: the type was changed to "all" in a state whose four
\* sub-filters were all set
C13_Witness ==
  /\ lastOp # None
  /\ lastOp.op = "setType"
  /\ lastOp.arg = "all"
  /\ lastOp.prev.type = "blogs"
  /\ lastOp.prev.searchTerm # <<>>
  /\ lastOp.prev.selectedAuthor # "All"
  /\ lastOp.prev.startDate # NoDate
  /\ lastOp.prev.endDate # NoDate
  /\ filters.type = "all"

\* the two states agree on every field but the named one
SameBut(field, s, t) ==
  \A f \in DOMAIN s \ {field} : s[f] = t[f]

\* C14: resetFilters sets selectedAuthor to "All" and searchTerm, startDate
\* and endDate to "" and leaves type unchanged; each of the four setters
\* changes its own field only.  Stated of the reducers on every reachable
\* state, and of the store after the handler or effect that dispatches them.
C14_FrameConditions ==
  /\ resetFilters(filters).type = filters.type
  /\ SubFiltersReset(resetFilters(filters))
  /\ \A x \in Terms :
       /\ setSearchTerm(filters, x).searchTerm = x
       /\ SameBut("searchTerm", setSearchTerm(filters, x), filters)
  /\ \A x \in {"All", "Jane", "Unknown"} :
       /\ setSelectedAuthor(filters, x).selectedAuthor = x
       /\ SameBut("selectedAuthor", setSelectedAuthor(filters, x), filters)
  /\ \A x \in DateInputs :
       /\ setStartDate(filters, x).startDate = x
       /\ SameBut("startDate", setStartDate(filters, x), filters)
       /\ setEndDate(filters, x).endDate = x
       /\ SameBut("endDate", setEndDate(filters, x), filters)
  /\ (lastOp # None /\ page = "dashboard" /\ lastOp.op # "setType") =>
       IF lastOp.op = "resetFilters"
       THEN /\ filters.type = lastOp.prev.type
            /\ SubFiltersReset(filters)
       ELSE LET field == CASE lastOp.op = "setSearchTerm" -> "searchTerm"
                           [] lastOp.op = "setSelectedAuthor" -> "selectedAuthor"
                           [] lastOp.op = "setStartDate" -> "startDate"
                           [] lastOp.op = "setEndDate" -> "endDate"
            IN /\ filters[field] = lastOp.arg
               /\ SameBut(field, filters, lastOp.prev)

\* C14 witness: the end date was set in a state whose other fields were all
\* set, and they are as they were
C14_Witness ==
  /\ lastOp # None
  /\ lastOp.op = "setEndDate"
  /\ lastOp.prev.type = "all"
  /\ lastOp.prev.searchTerm # <<>>
  /\ lastOp.prev.selectedAuthor # "All"
  /\ lastOp.prev.startDate = 2
  /\ lastOp.prev.endDate = NoDate
  /\ filters = [lastOp.prev EXCEPT !.endDate = 1]

\* the two characters are the same letter, whatever their case
SameLetter(a, b) ==
  \/ a = b
  \/ {a, b} \in {{"F", "f"}, {"E", "e"}, {"D", "d"}}

\* text contains term at some position, ignoring case
ContainsIgnoringCase(text, term) ==
  \E k \in 0..(Len(text) - Len(term)) :
    \A i \in 1..Len(term) : SameLetter(text[k + i], term[i])

\* the article's author, an absent one read as "Unknown"
AuthorRead(a) ==
  IF a.author \in {NullAuthor, ""} THEN "Unknown" ELSE a.author

\* the three conditions of C15 on an article.  A date bound is the instant
\* at which its day begins (UTC): a publication on day d at a later time is
\* after the bound d.
PassesAsStated(a) ==
  /\ \/ ContainsIgnoringCase(a.title, filters.searchTerm)
     \/ /\ a.description # NullDescription
        /\ ContainsIgnoringCase(a.description, filters.searchTerm)
  /\ filters.selectedAuthor \in {"All", AuthorRead(a)}
  /\ filters.startDate # NoDate => ~(a.publishedAt.day < filters.startDate)
  /\ filters.endDate # NoDate =>
       ~(\/ a.publishedAt.day > filters.endDate
         \/ a.publishedAt.day = filters.endDate /\ a.publishedAt.tick > 0)

\* the active set: the snapshot's lists if there is one, else the state's
ActiveSet ==
  LET from == IF offlineArticles # Null THEN offlineArticles
              ELSE [news |-> news, blogs |-> blogs]
  IN CASE filters.type = "news" -> from.news
       [] filters.type = "blogs" -> from.blogs
       [] OTHER -> from.news \o from.blogs

\* list is whole restricted to the positions in keep, in their order
RestrictedTo(list, whole, keep) ==
  /\ Len(list) = Cardinality(keep)
  /\ \A j \in 1..Len(list) :
       \E i \in keep :
         /\ Cardinality({x \in keep : x <= i}) = j
         /\ list[j] = whole[i]

\* C15: the dashboard's filtered list is the active set restricted to the
\* articles for which all three hold: title or description contains the
\* search term ignoring case (an absent description never matches); the
\* selected author is "All" or the article's author, absent read as
\* "Unknown"; the publication date is not before the start date and not
\* after the end date, when set.  Nothing is added, reordered or duplicated.
C15_FilteredList ==
  page = "dashboard" =>
    RestrictedTo(filtered, ActiveSet,
                 {i \in 1..Len(ActiveSet) : PassesAsStated(ActiveSet[i])})

\* C15 witness: over four articles, the search term "fed", the author Jane
\* and both date bounds keep the first and the last one and drop one by its
\* text and one by its author
C15_Witness ==
  /\ page = "dashboard"
  /\ filters.type = "all"
  /\ filters.searchTerm = <<"f", "e", "d">>
  /\ filters.selectedAuthor = "Jane"
  /\ filters.startDate = 1
  /\ filters.endDate = 2
  /\ Len(ActiveSet) = 4
  /\ filtered = <<ActiveSet[1], ActiveSet[4]>>
  /\ \E i \in 1..4 : ~matchesSearch(ActiveSet[i]) /\ matchesAuthor(ActiveSet[i])
  /\ \E i \in 1..4 : matchesSearch(ActiveSet[i]) /\ ~matchesAuthor(ActiveSet[i])

\* C16 (as stated): the date bounds are inclusive: an article of the active
\* set published at any time on the day chosen as the start date passes the
\* start test, and one published at any time on the day chosen as the end
\* date passes the end test.
C16_Original ==
  page = "dashboard" =>
    \A i \in 1..Len(ActiveSet) :
      LET a == ActiveSet[i] IN
      /\ (filters.startDate # NoDate /\ a.publishedAt.day = filters.startDate)
           => matchesStart(a)
      /\ (filters.endDate # NoDate /\ a.publishedAt.day = filters.endDate)
           => matchesEnd(a)

\* the (author, type) pair of an article, an absent author read as "Unknown"
PairOf(a) ==
  <<AuthorRead(a), a.type>>

\* the rate a rate input's value is accepted as, in hundredths: an empty
\* input is the number 0, a negative one is not accepted
Accepted(value) ==
  CASE value = "3" -> {300}
    [] value = "" -> {0}
    [] OTHER -> {}

\* the rate last accepted for a pair, or 2 if none was ever set: by the last
\* user action and the rates it found
LastAccepted(pair) ==
  LET before == IF lastOp = None THEN <<>> ELSE lastOp.prev
      set == IF lastOp = None THEN FALSE
             ELSE /\ lastOp.op = "handleRateChange"
                  /\ <<lastOp.arg[1], lastOp.arg[2]>> = pair
                  /\ Accepted(lastOp.arg[3]) # {}
  IN IF set THEN CHOOSE r \in Accepted(lastOp.arg[3]) : TRUE
     ELSE IF pair \in DOMAIN before THEN before[pair]
     ELSE 200

\* the sum of the counts of the rows
RECURSIVE SumCounts(_)
SumCounts(rows) ==
  IF rows = <<>> THEN 0
  ELSE rows[Len(rows)].count + SumCounts(SubSeq(rows, 1, Len(rows) - 1))

\* C17: on the payout page the groups are exactly the distinct (author,
\* type) pairs of the filtered articles, an absent author read as "Unknown";
\* a group's count is the number of filtered articles with its pair, so the
\* counts sum to the number of filtered articles; a group's total is its
\* count times the rate last accepted for it, or times 2 if none was ever
\* set; the CSV, PDF and spreadsheet rows carry the table's values.
C17_PayoutGrouping ==
  page = "payout" =>
    LET n == Len(filteredArticles)
        pairs == {PairOf(filteredArticles[i]) : i \in 1..n}
        CountOf(pair) ==
          Cardinality({i \in 1..n : PairOf(filteredArticles[i]) = pair})
    IN /\ Len(TableRows) = Cardinality(pairs)
       /\ {<<TableRows[i].author, TableRows[i].type>> :
             i \in 1..Len(TableRows)} = pairs
       /\ SumCounts(TableRows) = n
       /\ \A i \in 1..Len(TableRows) :
            LET row == TableRows[i]
                pair == <<row.author, row.type>>
            IN /\ row.count = CountOf(pair)
               /\ row.rate = LastAccepted(pair)
               /\ 100 * row.total.units + row.total.cents
                    = row.count * LastAccepted(pair)
               /\ row.total.cents \in 0..99
       /\ Len(CsvRows) = Len(TableRows)
       /\ Len(PdfRows) = Len(TableRows)
       /\ Len(SheetRows) = Len(TableRows)
       /\ \A i \in 1..Len(TableRows) :
            LET row == TableRows[i]
                cells == <<row.author, row.type, row.count, row.rate,
                           row.total>>
            IN /\ CsvRows[i] = cells
               /\ PdfRows[i] = cells
               /\ SheetRows[i] = [author |-> row.author, type |-> row.type,
                                  articles |-> row.count,
                                  ratePerArticle |-> row.rate,
                                  totalPayout |-> row.total]

\* C17 witness: with the author Jane selected, two news articles and one
\* blog of hers make two groups; the rate 3 was just entered for Jane|news,
\* whose total is 6.00, and Jane|blogs is paid 2.00 at the rate never set
C17_Witness ==
  /\ page = "payout"
  /\ selectedAuthor = "Jane"
  /\ Len(filteredArticles) = 3
  /\ lastOp # None
  /\ lastOp.op = "handleRateChange"
  /\ lastOp.arg = <<"Jane", "news", "3">>
  /\ <<"Jane", "blogs">> \notin DOMAIN payoutRates
  /\ TableRows =
       <<[author |-> "Jane", type |-> "news", count |-> 2, rate |-> 300,
          total |-> [units |-> 6, cents |-> 0]],
         [author |-> "Jane", type |-> "blogs", count |-> 1, rate |-> 200,
          total |-> [units |-> 2, cents |-> 0]]>>

\* the step in which the hydration task sets the page's state
HydrationWrites ==
  page # "none" /\ hyd.pc = "load" /\ hyd'.pc # "load"

\* the step in which the refresh task's fetch delivers and its .then sets
\* the page's state
RefreshWrites ==
  page # "none" /\ fetched = Null /\ fetched' # Null

\* the step in which the offline task has loaded a valid entry and sets the
\* page's state
OfflineWrites ==
  /\ page # "none"
  /\ off.pc = "load"
  /\ off'.pc = "done"
  /\ ValidCached(page, store[PageKey(page)])

\* C18: hydration, refresh and offline fallback are not ordered and do not
\* exclude one another; whenever one of them sets the page's state, the
\* displayed batch becomes the one it wrote, whatever the others wrote
\* before: the entry's batch or the server-rendered one for hydration, the
\* batch the fetcher returned for the refresh (also after hydration has set
\* the displayed batch), the entry's batch for the offline fallback.  The
\* displayed batch changes in no other step, but for a run of the
\* dashboard's empty-result fallback.
C18_LastWriteWins ==
  [][LET cached == store[PageKey(page)] IN
     /\ HydrationWrites =>
          Displayed' = IF ValidCached(page, cached)
                       THEN EntryBatch(page, cached)
                       ELSE SsrBatch
     /\ RefreshWrites =>
          Displayed' = FreshBatch(page, BatchOf(store'[CacheKeyNewsBlogs]))
     /\ OfflineWrites =>
          Displayed' = EntryBatch(page, cached)
     /\ Displayed' # Displayed =>
          \/ HydrationWrites
          \/ RefreshWrites
          \/ OfflineWrites
          \/ page = "dashboard" /\ fbPending' < fbPending
    ]_vars

\* C18 witness: the dashboard's hydration found no entry and set the
\* server-rendered batch (its put is still pending), then the refresh
\* delivered another batch, which is the displayed one
C18_Witness ==
  /\ page = "dashboard"
  /\ store0[CacheKeyNewsBlogs] = Null
  /\ hyd.pc = "save"
  /\ BatchOf(hyd.entry) = ssr
  /\ rf.pc = "pageSave"
  /\ fetched # Null
  /\ fetched # ssr
  /\ Displayed = fetched

\* C19: on a page mounted while the browser reports no connectivity, no
\* remote fetch is ever started; the offline task loads the store again, and
\* in the step in which its load returns, a valid entry becomes the batch
\* used for display, whatever was displayed before, and without a valid
\* entry the displayed batch is left as it was.
C19_OfflineFallback ==
  [][(page # "none" /\ ~online) =>
       /\ rf'.pc = "none"
       /\ fnbCalls' = 0
       /\ netCalls' = 0
       /\ answers' = <<>>
       /\ off'.pc \in {"load", "done"}
       /\ (off.pc = "load" /\ off'.pc = "done") =>
            LET cached == store[PageKey(page)]
                valid == IF page = "payout"
                         THEN /\ cached # Null
                              /\ "articles" \in DOMAIN cached
                              /\ Len(cached.articles) > 0
                         ELSE /\ cached # Null
                              /\ "news" \in DOMAIN cached
                              /\ "blogs" \in DOMAIN cached
            IN IF valid
               THEN Displayed' = EntryBatch(page, cached)
               ELSE Displayed' = Displayed
    ]_vars

\* C19 witness: the dashboard mounted offline over an entry that differs
\* from the server-rendered batch; the offline task has adopted the entry
\* while the lists still hold the server-rendered batch
C19_Witness ==
  /\ page = "dashboard"
  /\ ~online
  /\ off.pc = "done"
  /\ hyd.pc = "load"
  /\ store[CacheKeyNewsBlogs] # Null
  /\ BatchOf(store[CacheKeyNewsBlogs]) # ssr
  /\ [news |-> news, blogs |-> blogs] = ssr
  /\ Displayed = BatchOf(store[CacheKeyNewsBlogs])
  /\ netCalls = 0

\* the entry the call found under its key, stamped t instead
Restamped(t) ==
  [store0[CallKey] EXCEPT !.timestamp = t]

\* C20 (as stated): the one-hour test is enforced only in fetchNews: a
\* fetchNews call made no request exactly when an entry existed and was
\* younger than one hour, whereas a fetchNewsAndBlogs call over an entry
\* decided as it would have over the same entry with any other timestamp.
C20_Original ==
  (call # None /\ call.pc # "start") =>
    LET entry == store0[CallKey] IN
    IF call.fn = "fetchNews"
    THEN (netCalls = 0) <=> (entry # Null /\ Now0 - entry.timestamp < Hour)
    ELSE entry # Null =>
           \A t \in 0..Now0 :
             (netCalls = 0) <=> NewsBlogsCacheFresh(Restamped(t), Now0)

\* C20 (amended): the one-hour test is enforced in both fetch paths: a call
\* of fetchNews or of fetchNewsAndBlogs made no request exactly when an
\* entry existed under its key and was younger than one hour, and it then
\* returned that entry's articles, or its news and blogs, and left the
\* store as it was.
C20_FreshnessInBothPaths ==
  (call # None /\ call.pc # "start") =>
    LET entry == store0[CallKey]
        young == entry # Null /\ Now0 - entry.timestamp < Hour
    IN /\ (netCalls = 0) <=> young
       /\ young =>
            /\ call.pc = "returned"
            /\ store = store0
            /\ call.result = IF call.fn = "fetchNews" THEN entry.articles
                             ELSE [news |-> entry.news, blogs |-> entry.blogs]

\* C20 witness: fetchNewsAndBlogs found an entry older than one hour and
\* has sent a request
C20_Witness ==
  /\ call # None
  /\ call.fn = "fetchNewsAndBlogs"
  /\ call.pc = "net"
  /\ store0[CacheKeyNewsBlogs] # Null
  /\ Now0 - store0[CacheKeyNewsBlogs].timestamp >= Hour
  /\ netCalls = 1

\* C21 (as stated): whenever the dashboard's API-error flag is true, no
\* article is available from any source: the displayed news and blogs lists
\* are empty and the store holds no entry with an article under
\* "newsapi_news_blogs".
C21_Original ==
  (page = "dashboard" /\ apiError) =>
    /\ Len(Displayed.news) + Len(Displayed.blogs) = 0
    /\ \/ store[CacheKeyNewsBlogs] = Null
       \/ Len(store[CacheKeyNewsBlogs].news)
            + Len(store[CacheKeyNewsBlogs].blogs) = 0

\* the export's rows are POSTed one at a time and in order
PostedInOrder ==
  /\ Len(sheet.posts) <= Len(sheet.rows)
  /\ \A i \in 1..Len(sheet.posts) : sheet.posts[i] = sheet.rows[i]
  /\ Len(sheet.posts) = Len(sheet.responses) + (IF sheet.exporting THEN 1 ELSE 0)

\* the first POST that is not answered with success ends the export with a
\* failure alert carrying the error's message
StopsAtFirstFailure ==
  \A i \in 1..Len(sheet.responses) :
    sheet.responses[i] # "ok" =>
      /\ i = Len(sheet.responses)
      /\ Len(sheet.posts) = i
      /\ ~sheet.exporting
      /\ sheet.alert = IF sheet.responses[i] = "threw"
                       THEN <<"Export failed: ", "Failed to fetch">>
                       ELSE <<"Export failed: ", "Failed to export: ",
                              sheet.rows[i].author, " - ", sheet.rows[i].type>>

\* the success alert is raised only after every row's POST succeeded
SuccessOnlyIfAllPosted ==
  sheet.alert = <<"All payout data exported to Google Sheet!">> =>
    /\ ~sheet.exporting
    /\ Len(sheet.posts) = Len(sheet.rows)
    /\ Len(sheet.responses) = Len(sheet.rows)
    /\ \A i \in 1..Len(sheet.responses) : sheet.responses[i] = "ok"

\* C22: the spreadsheet export prepares the grouped rows when it starts and
\* POSTs them one at a time in order; at the first POST answered without
\* success or rejected no later row is posted and a failure alert with the
\* error's message is raised; the success alert is raised only if every
\* row's POST succeeded; and the exporting flag, true while the export is in
\* flight, always returns to false.
C22_SheetExport ==
  /\ [](PostedInOrder /\ StopsAtFirstFailure /\ SuccessOnlyIfAllPosted)
  /\ [][(~sheet.exporting /\ sheet' # sheet) => sheet'.rows = SheetRows]_vars
  /\ (sheet.exporting ~> ~sheet.exporting)

\* C22 witness: of three rows the first was posted with success and the
\* second was answered without success: the third was never posted, the
\* failure alert names the second row and the flag is false again
C22_Witness ==
  /\ page = "payout"
  /\ Len(sheet.rows) = 3
  /\ sheet.responses = <<"ok", "notOk">>
  /\ sheet.posts = <<sheet.rows[1], sheet.rows[2]>>
  /\ sheet.alert = FailedToExport(sheet.rows[2])
  /\ ~sheet.exporting

\* the entry holds at least one article
HoldsAnArticle(entry) ==
  /\ entry # Null
  /\ IF "articles" \in DOMAIN entry
     THEN Len(entry.articles) > 0
     ELSE Len(entry.news) + Len(entry.blogs) > 0

\* C23 (as stated): no store write of fetchNewsAndBlogs, fetchNews or a page
\* replaces an entry holding at least one article by an entry holding none,
\* under any of the three keys and after any answer of the provider.
C23_Original ==
  [][\A k \in CacheKeys :
       HoldsAnArticle(store[k]) => HoldsAnArticle(store'[k])]_vars

\* the provider answered every request with success and an article: the two
\* requests of the server-side fetch behind the props and every request of
\* this mount
ProviderServes ==
  /\ Len(ssr.news) > 0
  /\ Len(ssr.blogs) > 0
  /\ \A i \in 1..Len(answers) :
       /\ answers[i] # Threw
       /\ answers[i].ok
       /\ answers[i].hasArticles
       /\ Len(answers[i].articles) > 0

\* C24 (as stated): a dashboard mounted online, with a provider that answers
\* every request with success and at least one article, ends up displaying
\* a non-empty article list whatever the store held at mount: once all its
\* tasks have ended, after which nothing changes any more, the displayed
\* lists hold an article.
C24_Original ==
  (page = "dashboard" /\ online /\ ProviderServes /\ Quiescent) =>
    Len(Displayed.news) + Len(Displayed.blogs) > 0

\* C25 (as stated): on the dashboard the search term, the selected author
\* and the date bounds change only through the user's own filter actions:
\* a step that is not one of them, such as the completion of hydration or
\* of the refresh, leaves the filter state as it was.
C25_Original ==
  [][filters' # filters => lastOp' # lastOp]_vars

\* C26 (as stated): once all the hydration, refresh and fallback tasks of a
\* page have ended, the batch stored under the page's key is the batch the
\* page displays, in every interleaving of their state updates and puts.
C26_Original ==
  (page \in Pages /\ Quiescent) =>
    /\ store[PageKey(page)] # Null
    /\ EntryBatch(page, store[PageKey(page)]) = Displayed

====
